---- MODULE Spec2Model ----
(***************************************************************************)
(* Study-session engine of Retention: the pure session queue reducer       *)
(* (src/src/store/sessionQueue.ts) and the persisted study store that      *)
(* drives it (src/unnamed/part_005, imported by the tests as               *)
(* ./studyStore).                                                          *)
(*                                                                         *)
(* Encoding of the TypeScript values:                                      *)
(*   - a card id is a number of CardIds; the null id is NullId;            *)
(*   - a CardSummary is a record [id, prompt, keypoints, archived,         *)
(*     alternativeAnswers]; `prompt` stands for the required scalar fields *)
(*     (prompt, keypointCount), the other three are optional and hold      *)
(*     Undefined when the key is absent; the alternativeAnswers list that  *)
(*     holds the learner's answer is "a1";                                 *)
(*   - `null` of a record type is a record holding only the null id        *)
(*     (NoCard, NoAttempt); `null`/`undefined` of a string type is the     *)
(*     string Null / Undefined.                                            *)
(***************************************************************************)
EXTENDS Integers, Sequences, FiniteSets, TLC

(***************************************************************************)
(* Bounds of the model.                                                    *)
(***************************************************************************)
\* number of distinct card ids of the deck being studied
MaxCards == 2
\* cap on the length of the completed log (it grows without bound in the code)
MaxCompleted == 2

CardIds == 1..MaxCards
NullId == 0
Null == "null"
Undefined == "undefined"

NoCard == [id |-> NullId]

\* verdicts a review event may carry (types/study Verdict; Undefined = omitted)
Verdicts == {Undefined, "incorrect", "missing", "almost", "correct"}

DeckIds == {"deck-1"}

\* any card a caller may hand to bootstrap (SpecBootstrap)
AnyCards ==
  [id : CardIds, prompt : {"p0"}, keypoints : {Undefined, "k0"},
   archived : {Undefined, "true", "false"}, alternativeAnswers : {Undefined, "a1"}]

\* the cards of the deck being studied, as startSession / bootstrap get them;
\* the deck is edited outside the session and by "Mark as Correct", so a
\* card may hold the learner's answer among its alternative answers
DeckCards ==
  [id : CardIds, prompt : {"p0"}, keypoints : {"k0"},
   archived : {Undefined, "true"}, alternativeAnswers : {Undefined, "a1"}]

\* the card the study panel hands to syncCard (StudyPanel.tsx:637-640): the
\* card on display with the learner's answer added to its alternative answers
updatedCard(card) == [card EXCEPT !.alternativeAnswers = "a1"]

(***************************************************************************)
(* Sequence helpers (JavaScript array operations; map is a function        *)
(* constructor over the indices, filter is SelectSeq).                     *)
(***************************************************************************)
\* Array.prototype.slice(0, n)
Slice0(s, n) == IF Len(s) <= n THEN s ELSE SubSeq(s, 1, n)

\* state.completed.findIndex((entry) => entry.card.id === cardId), 1-based;
\* 0 when no entry matches (-1 in JavaScript)
completedIndexOf(completed, cardId) ==
  IF \E i \in 1..Len(completed) : completed[i].card.id = cardId
  THEN CHOOSE i \in 1..Len(completed) :
         /\ completed[i].card.id = cardId
         /\ \A j \in 1..(i - 1) : completed[j].card.id # cardId
  ELSE 0

(***************************************************************************)
(* State.                                                                  *)
(*   session .. sessionStartedAt  the fields of StudyState (the reducer    *)
(*                     specification threads `session` alone through       *)
(*                     sessionQueueReducer, as the reducer tests do)       *)
(*   now               the wall clock, Date.now(), in milliseconds         *)
(*   storage           the localStorage entry "retention-study-session"    *)
(*   inflight          the suspended recordAttempt / fetchAttemptHistory   *)
(*                     calls, in the order they were issued                *)
(*   returned          the submitAnswer / fetchAttempts promise that       *)
(*                     settled last: the call and the value it gave        *)
(*   deckUpdates       the suspended updateDeck calls of "Mark as Correct",*)
(*                     each with the card its handler syncs on return      *)
(*   bootCards         the card list handed to bootstrap (SpecBootstrap)   *)
(*   bootIds, everActive   history variables: the ids of the non-archived  *)
(*                     cards of the last bootstrap, and whether a card     *)
(*                     has been active since the last bootstrap or reset   *)
(***************************************************************************)
VARIABLES session, activeCardId, status, error, lastAttempt, attemptsByCard,
          sessionStartedAt, now, storage, inflight, returned, deckUpdates,
          bootCards, bootIds, everActive

storeVars == <<activeCardId, status, error, lastAttempt, attemptsByCard,
               sessionStartedAt>>
envVars == <<now, storage, inflight, returned, deckUpdates>>
histVars == <<bootCards, bootIds, everActive>>
vars == <<session, storeVars, envVars, histVars>>

(***************************************************************************)
(* sessionQueue.ts                                                         *)
(***************************************************************************)
initialSessionState ==
  [deckId |-> Null, active |-> NoCard, queue |-> <<>>, completed |-> <<>>,
   phase |-> "empty", lastAction |-> Null, total |-> 0]

\* { ...card, keypoints: card.keypoints ? [...card.keypoints] : undefined }
cloneCard(card) == [card EXCEPT !.keypoints = IF @ = Undefined THEN Undefined ELSE @]

\* { ...existing, ...incoming, keypoints: incoming.keypoints ?? existing.keypoints }
\* a key absent from `incoming` keeps the value of `existing`
mergeCards(existing, incoming) ==
  [id |-> incoming.id,
   prompt |-> incoming.prompt,
   archived |-> IF incoming.archived = Undefined THEN existing.archived
                ELSE incoming.archived,
   alternativeAnswers |-> IF incoming.alternativeAnswers = Undefined
                          THEN existing.alternativeAnswers
                          ELSE incoming.alternativeAnswers,
   keypoints |-> IF incoming.keypoints = Undefined THEN existing.keypoints
                 ELSE incoming.keypoints]

NotArchived(card) == card.archived \notin {"true"}

\* mutant: the archived cards are not filtered out
sortCardsForSession_keepsArchived(cards) == [i \in 1..Len(cards) |-> cloneCard(cards[i])]

\* cards.map(cloneCard).filter((card) => !card.archived)
sortCardsForSession(cards) == SelectSeq([i \in 1..Len(cards) |-> cloneCard(cards[i])], NotArchived)

\* mutant: the verdict of the event is not copied into the entry
completedEntry_noVerdict(state, kind, verdict) ==
  [card |-> cloneCard(state.active), action |-> kind, completedAt |-> now,
   verdict |-> Undefined]

\* the entry next / markLearned / backOfPile append to `completed`
completedEntry(state, kind, verdict) ==
  [card |-> cloneCard(state.active), action |-> kind, completedAt |-> now,
   verdict |-> verdict]

\* state.active ? [cloneCard(state.active), ...rest] : rest
withActiveInFront(state, rest) ==
  IF state.active # NoCard THEN <<cloneCard(state.active)>> \o rest ELSE rest

caseBootstrap(state, action) ==
  LET sortedCards == sortCardsForSession(action.cards)
      first == IF sortedCards = <<>> THEN NoCard ELSE Head(sortedCards)
      rest == IF sortedCards = <<>> THEN <<>> ELSE Tail(sortedCards)
  IN [deckId |-> action.deckId, active |-> first, queue |-> rest,
      completed |-> <<>>,
      phase |-> IF first # NoCard THEN "prompt" ELSE "empty",
      lastAction |-> "bootstrap", total |-> Len(sortedCards)]

\* mutant: the active card is dropped instead of going back to the queue
caseSetActiveNull_dropsActive(state) ==
  [state EXCEPT !.active = NoCard,
                !.phase = IF Len(state.queue) > 0 THEN "prompt" ELSE "empty",
                !.lastAction = "setActive"]

\* setActive with cardId === null
caseSetActiveNull(state) ==
  LET queue == withActiveInFront(state, state.queue)
  IN [state EXCEPT !.active = NoCard, !.queue = queue,
                   !.phase = IF Len(queue) > 0 THEN "prompt" ELSE "empty",
                   !.lastAction = "setActive"]

\* setActive with the id of the card that is already active
caseSetActiveSame(state) ==
  [state EXCEPT !.phase = IF state.phase = "empty" THEN "prompt" ELSE state.phase,
                !.lastAction = "setActive"]

\* mutant: the selected card is left in the queue (state.queue for nextQueue)
caseSetActiveQueued_keepsTarget(state, cardId) ==
  LET IsTarget(card) == card.id = cardId
      matches == SelectSeq(state.queue, IsTarget)
  IN [state EXCEPT !.active = cloneCard(matches[Len(matches)]),
                   !.queue = withActiveInFront(state, state.queue),
                   !.phase = "prompt", !.lastAction = "setActive"]

\* mutant: the card that was active is not put back into the queue
caseSetActiveQueued_dropsPrevious(state, cardId) ==
  LET IsTarget(card) == card.id = cardId
      NotTarget(card) == card.id # cardId
      matches == SelectSeq(state.queue, IsTarget)
  IN [state EXCEPT !.active = cloneCard(matches[Len(matches)]),
                   !.queue = SelectSeq(state.queue, NotTarget),
                   !.phase = "prompt", !.lastAction = "setActive"]

\* setActive with the id of a queued card: the for loop and lines 117-124
caseSetActiveQueued(state, cardId) ==
  LET IsTarget(card) == card.id = cardId
      NotTarget(card) == card.id # cardId
      matches == SelectSeq(state.queue, IsTarget)
      nextQueue == SelectSeq(state.queue, NotTarget)
      selected == cloneCard(matches[Len(matches)])
  IN [state EXCEPT !.active = selected,
                   !.queue = withActiveInFront(state, nextQueue),
                   !.phase = "prompt", !.lastAction = "setActive"]

\* mutant: re-activating a completed card counts it into `total` again
caseSetActiveCompleted_countsAgain(state, cardId) ==
  LET completedIndex == completedIndexOf(state.completed, cardId)
  IN IF completedIndex >= 1
     THEN [state EXCEPT !.active = cloneCard(state.completed[completedIndex].card),
                        !.queue = withActiveInFront(state, state.queue),
                        !.phase = "prompt", !.lastAction = "setActive",
                        !.total = state.total + 1]
     ELSE state

\* mutant: re-activating a completed card takes its entry out of the log
caseSetActiveCompleted_removesEntry(state, cardId) ==
  LET completedIndex == completedIndexOf(state.completed, cardId)
      NotTarget(entry) == entry.card.id # cardId
  IN IF completedIndex >= 1
     THEN [state EXCEPT !.active = cloneCard(state.completed[completedIndex].card),
                        !.queue = withActiveInFront(state, state.queue),
                        !.completed = SelectSeq(state.completed, NotTarget),
                        !.phase = "prompt", !.lastAction = "setActive"]
     ELSE state

\* setActive with an id found only in `completed` (else the state itself)
caseSetActiveCompleted(state, cardId) ==
  LET completedIndex == completedIndexOf(state.completed, cardId)
  IN IF completedIndex >= 1
     THEN [state EXCEPT !.active = cloneCard(state.completed[completedIndex].card),
                        !.queue = withActiveInFront(state, state.queue),
                        !.phase = "prompt", !.lastAction = "setActive"]
     ELSE state

caseSetActive(state, action) ==
  IF action.cardId = NullId THEN caseSetActiveNull(state)
  ELSE IF state.active.id = action.cardId THEN caseSetActiveSame(state)
  ELSE IF \E i \in 1..Len(state.queue) : state.queue[i].id = action.cardId
       THEN caseSetActiveQueued(state, action.cardId)
       ELSE caseSetActiveCompleted(state, action.cardId)

\* mutant: check without the guard on the active card
caseCheck_unguarded(state) ==
  [state EXCEPT !.phase = "review", !.lastAction = "check"]

caseCheck(state) ==
  IF state.active = NoCard THEN state
  ELSE [state EXCEPT !.phase = "review", !.lastAction = "check"]

\* mutant: the active card goes to the front of the queue, not to its end
caseBackOfPile_front(state, action) ==
  IF state.active = NoCard THEN state
  ELSE LET queueWithActive == <<cloneCard(state.active)>> \o state.queue
       IN [state EXCEPT !.active = Head(queueWithActive),
                        !.queue = Tail(queueWithActive),
                        !.completed = state.completed \o
                          <<completedEntry(state, "backOfPile", action.verdict)>>,
                        !.phase = "prompt", !.lastAction = "backOfPile"]

\* mutant: backOfPile rotates the pile without logging the review
caseBackOfPile_noEntry(state, action) ==
  IF state.active = NoCard THEN state
  ELSE LET queueWithActive == state.queue \o <<cloneCard(state.active)>>
       IN [state EXCEPT !.active = Head(queueWithActive),
                        !.queue = Tail(queueWithActive),
                        !.phase = "prompt", !.lastAction = "backOfPile"]

caseBackOfPile(state, action) ==
  IF state.active = NoCard THEN state
  ELSE LET queueWithActive == state.queue \o <<cloneCard(state.active)>>
           nextActive == Head(queueWithActive)
           remaining == Tail(queueWithActive)
       IN [state EXCEPT !.active = nextActive, !.queue = remaining,
                        !.completed = state.completed \o
                          <<completedEntry(state, "backOfPile", action.verdict)>>,
                        !.phase = IF nextActive # NoCard THEN "prompt" ELSE "complete",
                        !.lastAction = "backOfPile"]

\* mutant: next moves on without logging the review
caseNext_dropsEntry(state, action) ==
  IF state.active = NoCard THEN state
  ELSE LET nextActive == IF state.queue = <<>> THEN NoCard ELSE Head(state.queue)
           restQueue == IF state.queue = <<>> THEN <<>> ELSE Tail(state.queue)
       IN [state EXCEPT !.active = nextActive, !.queue = restQueue,
                        !.phase = IF nextActive # NoCard THEN "prompt" ELSE "complete",
                        !.lastAction = "next"]

\* mutant: the phase is computed from the queue left after the pop
caseNext_completeOnEmptyRest(state, action) ==
  IF state.active = NoCard THEN state
  ELSE LET nextActive == IF state.queue = <<>> THEN NoCard ELSE Head(state.queue)
           restQueue == IF state.queue = <<>> THEN <<>> ELSE Tail(state.queue)
       IN [state EXCEPT !.active = nextActive, !.queue = restQueue,
                        !.completed = state.completed \o
                          <<completedEntry(state, "next", action.verdict)>>,
                        !.phase = IF restQueue # <<>> THEN "prompt" ELSE "complete",
                        !.lastAction = "next"]

caseNext(state, action) ==
  IF state.active = NoCard THEN state
  ELSE LET nextActive == IF state.queue = <<>> THEN NoCard ELSE Head(state.queue)
           restQueue == IF state.queue = <<>> THEN <<>> ELSE Tail(state.queue)
       IN [state EXCEPT !.active = nextActive, !.queue = restQueue,
                        !.completed = state.completed \o
                          <<completedEntry(state, "next", action.verdict)>>,
                        !.phase = IF nextActive # NoCard THEN "prompt" ELSE "complete",
                        !.lastAction = "next"]

\* mutant: markLearned leaves the queue as it is when it pops its front
caseMarkLearned_keepsQueue(state, action) ==
  IF state.active = NoCard THEN state
  ELSE LET nextActive == IF state.queue = <<>> THEN NoCard ELSE Head(state.queue)
       IN [state EXCEPT !.active = nextActive,
                        !.completed = state.completed \o
                          <<completedEntry(state, "markLearned", action.verdict)>>,
                        !.phase = IF nextActive # NoCard THEN "prompt" ELSE "complete",
                        !.lastAction = "markLearned"]

\* mutant: markLearned sends the card to the back of the pile
caseMarkLearned_requeues(state, action) ==
  IF state.active = NoCard THEN state
  ELSE LET queueWithActive == state.queue \o <<cloneCard(state.active)>>
       IN [state EXCEPT !.active = Head(queueWithActive),
                        !.queue = Tail(queueWithActive),
                        !.completed = state.completed \o
                          <<completedEntry(state, "markLearned", action.verdict)>>,
                        !.phase = "prompt", !.lastAction = "markLearned"]

\* mutant: markLearned keeps one entry per card, replacing the earlier ones
caseMarkLearned_dedupes(state, action) ==
  IF state.active = NoCard THEN state
  ELSE LET nextActive == IF state.queue = <<>> THEN NoCard ELSE Head(state.queue)
           restQueue == IF state.queue = <<>> THEN <<>> ELSE Tail(state.queue)
           OtherCard(entry) == entry.card.id # state.active.id
       IN [state EXCEPT !.active = nextActive, !.queue = restQueue,
                        !.completed = SelectSeq(state.completed, OtherCard) \o
                          <<completedEntry(state, "markLearned", action.verdict)>>,
                        !.phase = IF nextActive # NoCard THEN "prompt" ELSE "complete",
                        !.lastAction = "markLearned"]

caseMarkLearned(state, action) ==
  IF state.active = NoCard THEN state
  ELSE LET nextActive == IF state.queue = <<>> THEN NoCard ELSE Head(state.queue)
           restQueue == IF state.queue = <<>> THEN <<>> ELSE Tail(state.queue)
       IN [state EXCEPT !.active = nextActive, !.queue = restQueue,
                        !.completed = state.completed \o
                          <<completedEntry(state, "markLearned", action.verdict)>>,
                        !.phase = IF nextActive # NoCard THEN "prompt" ELSE "complete",
                        !.lastAction = "markLearned"]

\* mutant: the `changed` test is missing, every syncCard tags the state
caseSyncCard_alwaysTags(state, action) ==
  LET target == cloneCard(action.card)
      SyncQueued(card) == IF card.id = target.id THEN mergeCards(card, target) ELSE card
      SyncEntry(entry) ==
        IF entry.card.id = target.id
        THEN [entry EXCEPT !.card = mergeCards(entry.card, target)]
        ELSE entry
  IN [state EXCEPT !.active = IF state.active.id = target.id
                                THEN mergeCards(state.active, target)
                                ELSE state.active,
                   !.queue = [i \in 1..Len(state.queue) |-> SyncQueued(state.queue[i])],
                   !.completed = [i \in 1..Len(state.completed) |-> SyncEntry(state.completed[i])],
                   !.lastAction = "syncCard"]

caseSyncCard(state, action) ==
  LET target == cloneCard(action.card)
      SyncQueued(card) == IF card.id = target.id THEN mergeCards(card, target) ELSE card
      SyncEntry(entry) ==
        IF entry.card.id = target.id
        THEN [entry EXCEPT !.card = mergeCards(entry.card, target)]
        ELSE entry
      changed ==
        \/ state.active.id = target.id
        \/ \E i \in 1..Len(state.queue) : state.queue[i].id = target.id
        \/ \E i \in 1..Len(state.completed) : state.completed[i].card.id = target.id
  IN IF ~changed THEN state
     ELSE [state EXCEPT !.active = IF state.active.id = target.id
                                   THEN mergeCards(state.active, target)
                                   ELSE state.active,
                        !.queue = [i \in 1..Len(state.queue) |-> SyncQueued(state.queue[i])],
                        !.completed = [i \in 1..Len(state.completed) |-> SyncEntry(state.completed[i])],
                        !.lastAction = "syncCard"]

sessionQueueReducer(state, action) ==
  CASE action.type = "bootstrap" -> caseBootstrap(state, action)
    [] action.type = "setActive" -> caseSetActive(state, action)
    [] action.type = "check" -> caseCheck(state)
    [] action.type = "backOfPile" -> caseBackOfPile(state, action)
    [] action.type = "next" -> caseNext(state, action)
    [] action.type = "markLearned" -> caseMarkLearned(state, action)
    [] action.type = "syncCard" -> caseSyncCard(state, action)
    [] action.type = "reset" -> initialSessionState
    [] OTHER -> state

(***************************************************************************)
(* Inputs.                                                                 *)
(***************************************************************************)
\* card lists with pairwise distinct ids, in any order the caller chooses
DistinctIds(cards) ==
  \A i, j \in 1..Len(cards) : i # j => cards[i].id # cards[j].id

\* every card list of at most MaxCards + 1 cards (ids may repeat)
AnyInputs == UNION {[1..n -> AnyCards] : n \in 0..(MaxCards + 1)}

BootInputs ==
  UNION {{cards \in [1..n -> DeckCards] : DistinctIds(cards)} : n \in 0..MaxCards}

\* the clock reading at which the process starts
StartTime == 2 * 24 * 60 * 60 * 1000

NoAttempt == [id |-> NullId]
NoStorage == [version |-> -1]
\* no promise has settled yet
NoReturn == [call |-> [kind |-> "none"], value |-> NoAttempt]

(***************************************************************************)
(* The reducer driven directly: one action per SessionQueueAction.         *)
(***************************************************************************)
InitStore ==
  /\ session = initialSessionState
  /\ activeCardId = NullId
  /\ status = "idle"
  /\ error = Undefined
  /\ lastAttempt = NoAttempt
  /\ attemptsByCard = [c \in {} |-> <<>>]
  /\ sessionStartedAt = NullId
  /\ now = StartTime
  /\ storage = NoStorage
  /\ inflight = <<>>
  /\ returned = NoReturn
  /\ deckUpdates = <<>>
  /\ bootIds = {}
  /\ everActive = FALSE

Init == InitStore /\ bootCards = <<>>

\* history variables after `action` took `session` to `after`
Remember(action, after) ==
  /\ UNCHANGED bootCards
  /\ bootIds' = CASE action.type = "bootstrap" ->
                      {action.cards[i].id : i \in
                         {j \in 1..Len(action.cards) : action.cards[j].archived # "true"}}
                   [] action.type = "reset" -> {}
                   [] OTHER -> bootIds
  /\ everActive' = IF action.type \in {"bootstrap", "reset"}
                   THEN after.active # NoCard
                   ELSE everActive \/ after.active # NoCard

Reduce(action) ==
  /\ session' = sessionQueueReducer(session, action)
  /\ Remember(action, session')
  /\ UNCHANGED <<storeVars, envVars>>

\* the cards held by `state`: active, queued, or logged in `completed`
SessionCards(state) ==
  ({state.active} \ {NoCard})
    \cup {state.queue[i] : i \in 1..Len(state.queue)}
    \cup {state.completed[i].card : i \in 1..Len(state.completed)}

SessionIds(state) == {c.id : c \in SessionCards(state)}

\* the verdicts the review events of this specification carry
EventVerdicts == {Undefined, "correct"}

\* the cards syncCard is dispatched with: a card the panel held on display
\* when "Mark as Correct" was clicked, with the answer added; the session
\* may have moved on, or been restarted, by the time of the dispatch
\* (StudyPanel.tsx:634-641)
SyncCards == {updatedCard(card) : card \in {c \in DeckCards : NotArchived(c)}}

\* the completed log may take one more entry
RoomInLog == session.active # NoCard => Len(session.completed) < MaxCompleted

\* bootstrap does not read the prior state, and startSession always hands
\* it initialSessionState (part_005:65): it is taken from that state only
EvBootstrap ==
  /\ session = initialSessionState
  /\ \E deckId \in DeckIds, cards \in BootInputs :
       Reduce([type |-> "bootstrap", deckId |-> deckId, cards |-> cards])

EvSetActive ==
  \E cardId \in CardIds \cup {NullId} :
    Reduce([type |-> "setActive", cardId |-> cardId])

EvCheck == Reduce([type |-> "check"])

EvBackOfPile ==
  /\ RoomInLog
  /\ \E verdict \in EventVerdicts : Reduce([type |-> "backOfPile", verdict |-> verdict])

EvNext ==
  /\ RoomInLog
  /\ \E verdict \in EventVerdicts : Reduce([type |-> "next", verdict |-> verdict])

EvMarkLearned ==
  /\ RoomInLog
  /\ \E verdict \in EventVerdicts : Reduce([type |-> "markLearned", verdict |-> verdict])

EvSyncCard ==
  \E card \in SyncCards : Reduce([type |-> "syncCard", card |-> card])

EvReset == Reduce([type |-> "reset"])

Next ==
  \/ EvBootstrap
  \/ EvSetActive
  \/ EvCheck
  \/ EvBackOfPile
  \/ EvNext
  \/ EvMarkLearned
  \/ EvSyncCard
  \/ EvReset

Spec == Init /\ [][Next]_vars

(***************************************************************************)
(* The study store (part_005): the synchronous handlers, the suspended     *)
(* history calls they start, the clock, and the persist middleware that    *)
(* mirrors the store into durable storage and rehydrates it on start-up.   *)
(***************************************************************************)
\* cap on the number of suspended collaborator calls
MaxInFlight == 1

MAX_SESSION_AGE_MS == 24 * 60 * 60 * 1000
HourMs == 60 * 60 * 1000

\* the `version` option of persist, and the version an unversioned release wrote
StoreVersion == 1
LegacyVersion == StoreVersion - 1

NullTime == NullId

\* the readings the clock takes: start, 23 h, 24 h, and 1 ms past 24 h later
ClockReadings ==
  {StartTime, StartTime + 23 * HourMs, StartTime + MAX_SESSION_AGE_MS,
   StartTime + MAX_SESSION_AGE_MS + 1}

\* the card lists the deck view hands to startSession: the cards of a deck
\* in deck order, the first of them card 1
StoreDecks == {cards \in BootInputs : Len(cards) >= 1 /\ cards[1].id = 1}

\* the attempt the study panel shows with `card`: lastAttempt when it
\* belongs to that card, else none (StudyPanel.tsx:358-363)
verdictForCard(card, attempt) ==
  IF card = NoCard \/ attempt = NoAttempt THEN NoAttempt
  ELSE IF attempt.cardId # card.id THEN NoAttempt
  ELSE attempt

\* verdictForCard?.verdict for the card on display, the session's active card
panelVerdict ==
  LET shown == verdictForCard(session.active, lastAttempt)
  IN IF shown = NoAttempt THEN Undefined ELSE shown.verdict

\* the panel is busy while an answer is being scored (StudyPanel.tsx:357)
busy == status = "scoring"

\* the review events the study panel dispatches (StudyPanel.tsx:649-677):
\* backOfPile and next with the verdict on display, neither while busy
PanelEvents ==
  IF busy THEN {}
  ELSE {[type |-> "backOfPile", verdict |-> panelVerdict],
        [type |-> "next", verdict |-> panelVerdict]}

\* what fetchAttemptHistory may answer for a card, newest first
HistoryResponses(cardId) ==
  {<<>>, <<[id |-> 1, cardId |-> cardId, verdict |-> "correct"]>>}

\* messages of the errors the collaborators reject with (services/api.ts:126,
\* 140): a failed history call of the not-found class and one that is not,
\* and the failures of a scoring call (validation, timeout)
NotFoundErrors == {"HTTP 404: Card not found"}
TransportErrors == {"HTTP 500: Internal Server Error"}
HistoryErrors == NotFoundErrors \cup TransportErrors
ScoreErrors == {"HTTP 422: Answer is empty", "Request timeout after 30000ms"}

\* message.toLowerCase(), as the sequence of its words
toLowerCase(message) ==
  CASE message = "HTTP 404: Card not found" -> <<"http", "404", "card", "not", "found">>
    [] message = "HTTP 500: Internal Server Error" ->
         <<"http", "500", "internal", "server", "error">>
    [] message = "HTTP 422: Answer is empty" -> <<"http", "422", "answer", "is", "empty">>
    [] message = "Request timeout after 30000ms" ->
         <<"request", "timeout", "after", "30000ms">>
    [] OTHER -> <<>>

\* String.prototype.includes on lower-cased words
includes(words, needle) ==
  \E i \in 1..(Len(words) - Len(needle) + 1) :
    SubSeq(words, i, i + Len(needle) - 1) = needle

\* mutant: no failure is taken for a deleted card
isNotFoundError_never(message) == FALSE

\* part_005:189-192
isNotFoundError(message) ==
  \/ includes(toLowerCase(message), <<"not", "found">>)
  \/ includes(toLowerCase(message), <<"404">>)
  \/ includes(toLowerCase(message), <<"does", "not", "exist">>)

\* part_005:151-156
isConnectionError(rawMessage) ==
  \/ includes(toLowerCase(rawMessage), <<"timeout">>)
  \/ includes(toLowerCase(rawMessage), <<"connection">>)
  \/ includes(toLowerCase(rawMessage), <<"network">>)
  \/ includes(toLowerCase(rawMessage), <<"fetch">>)
  \/ includes(toLowerCase(rawMessage), <<"unreachable">>)

SidecarMessage ==
  "Cannot reach the sidecar service. The request timed out or the sidecar may be offline. Please check the Sidecar Diagnostics section below."

\* part_005:158-160
userMessage(rawMessage) ==
  IF isConnectionError(rawMessage) THEN SidecarMessage ELSE rawMessage

deriveSessionState(previousAttempt, sess) ==
  LET id == sess.active.id
  IN [session |-> sess,
      activeCardId |-> id,
      lastAttempt |-> IF previousAttempt # NoAttempt /\ previousAttempt.cardId = id
                      THEN previousAttempt ELSE NoAttempt]

\* get().attemptsByCard[cardId]; <<>> stands for both [] and undefined where
\* the code only tests `existing && existing.length > 0`
CachedAttempts(cache, cardId) ==
  IF cardId \in DOMAIN cache THEN cache[cardId] ELSE <<>>

\* the synchronous head of fetchAttempts: does the call reach the collaborator
fetchAttemptsCalls(cache, cardId, force) ==
  ~(Len(CachedAttempts(cache, cardId)) > 0 /\ ~force)

\* a fetchAttemptHistory(cardId, limit) call; `overtaken` is a history flag,
\* set once a call issued later for the same card has written its response
HistoryCall(cardId, limit) ==
  [kind |-> "history", cardId |-> cardId, limit |-> limit, overtaken |-> FALSE]

\* the calls in flight after fetchAttempts(cardId, {limit, force}) has run its
\* synchronous head
AfterFetchAttempts(calls, cache, cardId, limit, force) ==
  IF fetchAttemptsCalls(cache, cardId, force)
  THEN Append(calls, HistoryCall(cardId, limit))
  ELSE calls

\* the promise settled last, after that head: a cache hit returns `existing`
ReturnedAfterFetch(last, cache, cardId, limit, force) ==
  IF fetchAttemptsCalls(cache, cardId, force)
  THEN last
  ELSE [call |-> HistoryCall(cardId, limit), value |-> CachedAttempts(cache, cardId)]

\* mutant: a list already cached for the card is kept, the first write wins
writeAttempts_keepsFirst(cache, cardId, attempts) ==
  IF cardId \in DOMAIN cache /\ cache[cardId] # <<>>
  THEN cache
  ELSE [c \in DOMAIN cache \cup {cardId} |-> IF c = cardId THEN attempts ELSE cache[c]]

\* { ...state.attemptsByCard, [cardId]: attempts }
writeAttempts(cache, cardId, attempts) ==
  [c \in DOMAIN cache \cup {cardId} |-> IF c = cardId THEN attempts ELSE cache[c]]

\* partialize: the fields of the store written to storage
partialize(sess, id, attempt, cache, startedAt) ==
  [session |-> sess, activeCardId |-> id, lastAttempt |-> attempt,
   attemptsByCard |-> cache, sessionStartedAt |-> startedAt]

MAX_CACHED_ATTEMPTS == 50

\* [attempt, ...existing].slice(0, MAX_CACHED_ATTEMPTS)
prependAttempt(existing, attempt) == Slice0(<<attempt>> \o existing, MAX_CACHED_ATTEMPTS)

\* a recordAttempt(payload) call; `askedIn` is a history field, the phase of
\* the session when submitAnswer was called
ScoreCall(payload, phase) ==
  [kind |-> "score", cardId |-> payload.cardId, askedIn |-> phase]

\* the storage entry persist writes after every set()
Persisted(sess, id, attempt, cache, startedAt) ==
  [version |-> StoreVersion, state |-> partialize(sess, id, attempt, cache, startedAt)]

\* the state the store is created with, in the shape of partialize
InitialSnapshot ==
  partialize(initialSessionState, NullId, NoAttempt, [c \in {} |-> <<>>], NullTime)

\* the `migrate` option (part_005:234-254)
migrate(persistedState, version) ==
  LET sessionAge == IF persistedState.sessionStartedAt # NullTime
                    THEN now - persistedState.sessionStartedAt
                    ELSE MAX_SESSION_AGE_MS + 1
  IN IF sessionAge > MAX_SESSION_AGE_MS
     THEN partialize(initialSessionState, NullId, NoAttempt, [c \in {} |-> <<>>],
                     NullTime)
     ELSE persistedState

\* hydration by the persist middleware: `migrate` runs only on an entry whose
\* version differs from the `version` option; the result is merged over the
\* freshly created store
rehydrate(entry) ==
  IF entry = NoStorage THEN InitialSnapshot
  ELSE IF entry.version # StoreVersion THEN migrate(entry.state, entry.version)
  ELSE entry.state

\* what hydration leaves in storage: persist writes the hydrated state back
\* after a migration; without one (no entry, or an entry of this version)
\* the installed release of the middleware decides whether it writes
hydrationWrites(entry) ==
  LET loaded == rehydrate(entry)
      written == [version |-> StoreVersion, state |-> loaded]
      migrated == entry # NoStorage /\ entry.version # StoreVersion
  IN IF migrated THEN {written} ELSE {entry, written}

\* history variables follow the session the store holds after a set()
Track(action, after) == Remember(action, after)

StoreWrites ==
  storage' = Persisted(session', activeCardId', lastAttempt', attemptsByCard',
                       sessionStartedAt')

HasRoom(calls) == Len(calls) <= MaxInFlight

startSession(deckId, cards) ==
  LET action == [type |-> "bootstrap", deckId |-> deckId, cards |-> cards]
      derived == deriveSessionState(NoAttempt,
                   sessionQueueReducer(initialSessionState, action))
      calls == IF derived.session.active # NoCard
               THEN AfterFetchAttempts(inflight, attemptsByCard,
                                       derived.session.active.id, 20, TRUE)
               ELSE inflight
  IN /\ HasRoom(calls)
     /\ session' = derived.session
     /\ activeCardId' = derived.activeCardId
     /\ lastAttempt' = derived.lastAttempt
     /\ sessionStartedAt' = now
     /\ error' = Undefined
     /\ inflight' = calls
     /\ returned' = IF derived.session.active # NoCard
                    THEN ReturnedAfterFetch(returned, attemptsByCard,
                                            derived.session.active.id, 20, TRUE)
                    ELSE returned
     /\ UNCHANGED <<status, attemptsByCard, now>>
     /\ StoreWrites
     /\ Track(action, session')

\* the state set by dispatchSession (part_005:82-84)
dispatched(state, attempt, action) ==
  deriveSessionState(attempt, sessionQueueReducer(state, action))

dispatchSession(action) ==
  LET previousActive == session.active.id
      derived == dispatched(session, lastAttempt, action)
      nextActive == derived.session.active.id
      prefetch == /\ nextActive # NullId
                  /\ nextActive # previousActive
                  /\ action.type \notin {"check", "syncCard"}
      calls == IF prefetch
               THEN AfterFetchAttempts(inflight, attemptsByCard, nextActive, 20, FALSE)
               ELSE inflight
  IN /\ HasRoom(calls)
     /\ session' = derived.session
     /\ activeCardId' = derived.activeCardId
     /\ lastAttempt' = derived.lastAttempt
     /\ inflight' = calls
     /\ returned' = IF prefetch
                    THEN ReturnedAfterFetch(returned, attemptsByCard, nextActive, 20, FALSE)
                    ELSE returned
     /\ UNCHANGED <<status, error, attemptsByCard, sessionStartedAt, now>>
     /\ StoreWrites
     /\ Track(action, session')

resetSession ==
  /\ session' = initialSessionState
  /\ activeCardId' = NullId
  /\ lastAttempt' = NoAttempt
  /\ sessionStartedAt' = NullTime
  /\ UNCHANGED <<status, error, attemptsByCard, now, inflight, returned>>
  /\ StoreWrites
  /\ Track([type |-> "reset"], session')

selectCard(cardId) ==
  LET action == [type |-> "setActive", cardId |-> cardId]
      previousActive == session.active.id
      derived == deriveSessionState(IF cardId = NullId THEN NoAttempt ELSE lastAttempt,
                                    sessionQueueReducer(session, action))
      nextActive == derived.session.active.id
      prefetch == /\ cardId # NullId
                  /\ nextActive # NullId
                  /\ \/ nextActive # previousActive
                     \/ nextActive \notin DOMAIN attemptsByCard
      calls == IF prefetch
               THEN AfterFetchAttempts(inflight, attemptsByCard, nextActive, 20, FALSE)
               ELSE inflight
  IN /\ HasRoom(calls)
     /\ session' = derived.session
     /\ activeCardId' = derived.activeCardId
     /\ lastAttempt' = derived.lastAttempt
     /\ error' = Undefined
     /\ inflight' = calls
     /\ returned' = IF prefetch
                    THEN ReturnedAfterFetch(returned, attemptsByCard, nextActive, 20, FALSE)
                    ELSE returned
     /\ UNCHANGED <<status, attemptsByCard, sessionStartedAt, now>>
     /\ StoreWrites
     /\ Track(action, session')

\* submitAnswer up to its await (part_005:128-130)
submitAnswer(payload) ==
  LET calls == Append(inflight, ScoreCall(payload, session.phase))
  IN /\ status' = "scoring"
     /\ error' = Undefined
     /\ inflight' = calls
     /\ UNCHANGED <<session, activeCardId, lastAttempt, attemptsByCard, sessionStartedAt,
                    now, returned, histVars>>
     /\ StoreWrites

\* fetchAttempts called by a client of the store (part_005:169-176)
fetchAttempts(cardId, limit, force) ==
  LET calls == AfterFetchAttempts(inflight, attemptsByCard, cardId, limit, force)
  IN /\ inflight' = calls
     /\ returned' = ReturnedAfterFetch(returned, attemptsByCard, cardId, limit, force)
     /\ UNCHANGED <<session, storeVars, now, storage, histVars>>

clearError ==
  /\ error' = Undefined
  /\ UNCHANGED <<session, activeCardId, status, lastAttempt, attemptsByCard,
                 sessionStartedAt, now, inflight, returned, histVars>>
  /\ StoreWrites

\* the calls in flight without the i-th
Without(calls, i) == SubSeq(calls, 1, i - 1) \o SubSeq(calls, i + 1, Len(calls))

\* history flag: the calls issued before the i-th for the same card have been
\* overtaken by it
Overtake(calls, i) ==
  [j \in 1..Len(calls) |->
     IF j < i /\ calls[j].kind = "history" /\ calls[j].cardId = calls[i].cardId
     THEN [calls[j] EXCEPT !.overtaken = TRUE]
     ELSE calls[j]]

\* mutant: the attempt is stored without touching the cache or the session
scoreResolves_skipsCheck(i, attempt) ==
  /\ status' = "idle"
  /\ lastAttempt' = attempt
  /\ inflight' = Without(inflight, i)
  /\ returned' = [call |-> inflight[i], value |-> attempt]
  /\ UNCHANGED <<session, activeCardId, attemptsByCard, error, sessionStartedAt, now,
                 histVars>>
  /\ StoreWrites

\* mutant: the active card id is taken from the payload, not from the session
scoreResolves_activeOfPayload(i, attempt) ==
  LET cardId == inflight[i].cardId
      existing == CachedAttempts(attemptsByCard, cardId)
      nextAttempts == prependAttempt(existing, attempt)
      checked == sessionQueueReducer(session, [type |-> "check"])
  IN /\ status' = "idle"
     /\ lastAttempt' = attempt
     /\ attemptsByCard' = writeAttempts(attemptsByCard, cardId, nextAttempts)
     /\ session' = checked
     /\ activeCardId' = cardId
     /\ inflight' = Without(inflight, i)
     /\ returned' = [call |-> inflight[i], value |-> attempt]
     /\ UNCHANGED <<error, sessionStartedAt, now>>
     /\ StoreWrites
     /\ Track([type |-> "check"], session')

\* mutant: the response is applied to the card of the call, which is brought
\* back as the active card before the check
scoreResolves_restoresCard(i, attempt) ==
  LET cardId == inflight[i].cardId
      existing == CachedAttempts(attemptsByCard, cardId)
      nextAttempts == prependAttempt(existing, attempt)
      restored == sessionQueueReducer(session, [type |-> "setActive", cardId |-> cardId])
      checked == sessionQueueReducer(restored, [type |-> "check"])
  IN /\ status' = "idle"
     /\ lastAttempt' = attempt
     /\ attemptsByCard' = writeAttempts(attemptsByCard, cardId, nextAttempts)
     /\ session' = checked
     /\ activeCardId' = checked.active.id
     /\ inflight' = Without(inflight, i)
     /\ returned' = [call |-> inflight[i], value |-> attempt]
     /\ UNCHANGED <<error, sessionStartedAt, now>>
     /\ StoreWrites
     /\ Track([type |-> "check"], session')

\* submitAnswer resumes with the scored attempt (part_005:131-146)
scoreResolves(i, attempt) ==
  LET cardId == inflight[i].cardId
      existing == CachedAttempts(attemptsByCard, cardId)
      nextAttempts == prependAttempt(existing, attempt)
      checked == sessionQueueReducer(session, [type |-> "check"])
  IN /\ status' = "idle"
     /\ lastAttempt' = attempt
     /\ attemptsByCard' = writeAttempts(attemptsByCard, cardId, nextAttempts)
     /\ session' = checked
     /\ activeCardId' = checked.active.id
     /\ inflight' = Without(inflight, i)
     /\ returned' = [call |-> inflight[i], value |-> attempt]
     /\ UNCHANGED <<error, sessionStartedAt, now>>
     /\ StoreWrites
     /\ Track([type |-> "check"], session')

\* mutant: a failed scoring call also drops the cached attempts of the card
scoreFails_dropsCache(i, rawMessage) ==
  /\ status' = "error"
  /\ error' = userMessage(rawMessage)
  /\ attemptsByCard' = writeAttempts(attemptsByCard, inflight[i].cardId, <<>>)
  /\ inflight' = Without(inflight, i)
  /\ returned' = [call |-> inflight[i], value |-> NoAttempt]
  /\ UNCHANGED <<session, activeCardId, lastAttempt, sessionStartedAt, now, histVars>>
  /\ StoreWrites

\* submitAnswer resumes with a failure of the scoring call (part_005:147-167)
scoreFails(i, rawMessage) ==
  /\ status' = "error"
  /\ error' = userMessage(rawMessage)
  /\ inflight' = Without(inflight, i)
  /\ returned' = [call |-> inflight[i], value |-> NoAttempt]
  /\ UNCHANGED <<session, activeCardId, lastAttempt, attemptsByCard, sessionStartedAt,
                 now, histVars>>
  /\ StoreWrites

\* fetchAttempts resumes with the history of the card (part_005:176-184)
historyResolves(i, attempts) ==
  /\ attemptsByCard' = writeAttempts(attemptsByCard, inflight[i].cardId, attempts)
  /\ error' = Undefined
  /\ inflight' = Without(Overtake(inflight, i), i)
  /\ returned' = [call |-> inflight[i], value |-> attempts]
  /\ UNCHANGED <<session, activeCardId, status, lastAttempt, sessionStartedAt, now,
                 histVars>>
  /\ StoreWrites

\* fetchAttempts resumes with a not-found-class error (part_005:194-204)
historyNotFound(i) ==
  /\ attemptsByCard' = writeAttempts(attemptsByCard, inflight[i].cardId, <<>>)
  /\ inflight' = Without(inflight, i)
  /\ returned' = [call |-> inflight[i], value |-> <<>>]
  /\ UNCHANGED <<session, activeCardId, status, error, lastAttempt, sessionStartedAt,
                 now, histVars>>
  /\ StoreWrites

\* fetchAttempts resumes with any other error (part_005:206-208)
historyFails(i, message) ==
  /\ error' = message
  /\ inflight' = Without(inflight, i)
  /\ returned' = [call |-> inflight[i], value |-> <<>>]
  /\ UNCHANGED <<session, activeCardId, status, lastAttempt, attemptsByCard,
                 sessionStartedAt, now, histVars>>
  /\ StoreWrites

\* the catch block of fetchAttempts (part_005:185-209)
historyRejects(i, message) ==
  IF isNotFoundError(message) THEN historyNotFound(i) ELSE historyFails(i, message)

\* "Reset app data" (App.tsx:255-272): the session is reset and local
\* storage cleared; the reload the handler schedules is the Reload step
ResetAppData ==
  /\ session' = initialSessionState
  /\ activeCardId' = NullId
  /\ lastAttempt' = NoAttempt
  /\ sessionStartedAt' = NullTime
  /\ storage' = NoStorage
  /\ UNCHANGED <<status, error, attemptsByCard, now, inflight, returned, deckUpdates>>
  /\ Track([type |-> "reset"], session')

\* the process restarts: suspended calls are gone, the store is created anew
\* and hydrated from storage
Reload ==
  LET loaded == rehydrate(storage)
  IN /\ session' = loaded.session
     /\ activeCardId' = loaded.activeCardId
     /\ lastAttempt' = loaded.lastAttempt
     /\ attemptsByCard' = loaded.attemptsByCard
     /\ sessionStartedAt' = loaded.sessionStartedAt
     /\ status' = "idle"
     /\ error' = Undefined
     /\ inflight' = <<>>
     /\ returned' = NoReturn
     /\ deckUpdates' = <<>>
     /\ storage' \in hydrationWrites(storage)
     /\ bootIds' = IF loaded.session = session THEN bootIds ELSE SessionIds(loaded.session)
     /\ everActive' = IF loaded.session = session THEN everActive
                      ELSE loaded.session.active # NoCard
     /\ UNCHANGED <<now, bootCards>>

\* time passes
Tick ==
  /\ \E t \in ClockReadings : t > now /\ now' = t
  /\ UNCHANGED <<session, storeVars, storage, inflight, returned, deckUpdates, histVars>>

\* storage entries left by a release that set no `version`: a one-card
\* session started 23 h or 25 h before this process
LegacyEntries ==
  {[version |-> LegacyVersion,
    state |-> partialize(
      caseBootstrap(initialSessionState,
        [type |-> "bootstrap", deckId |-> d, cards |-> <<c>>]),
      c.id, NoAttempt, [x \in {} |-> <<>>], t)] :
   d \in DeckIds, c \in {x \in DeckCards : x.archived # "true"},
   t \in {StartTime - 23 * HourMs, StartTime - 25 * HourMs}}

\* the store after its construction: created, then hydrated from what an
\* earlier process left in storage
InitPersist ==
  /\ now = StartTime
  /\ \E entry \in {NoStorage} \cup LegacyEntries :
       LET loaded == rehydrate(entry)
       IN /\ session = loaded.session
          /\ activeCardId = loaded.activeCardId
          /\ lastAttempt = loaded.lastAttempt
          /\ attemptsByCard = loaded.attemptsByCard
          /\ sessionStartedAt = loaded.sessionStartedAt
          /\ storage \in hydrationWrites(entry)
          /\ bootIds = SessionIds(loaded.session)
          /\ everActive = (loaded.session.active # NoCard)
  /\ status = "idle"
  /\ error = Undefined
  /\ inflight = <<>>
  /\ returned = NoReturn
  /\ deckUpdates = <<>>
  /\ bootCards = <<>>

StartSession ==
  /\ \E deckId \in DeckIds, cards \in StoreDecks : startSession(deckId, cards)
  /\ UNCHANGED deckUpdates

DispatchSession ==
  \E action \in PanelEvents :
    /\ RoomInLog
    /\ dispatchSession(action)
    /\ UNCHANGED deckUpdates

ResetSession == resetSession /\ UNCHANGED deckUpdates

ClearError == clearError /\ UNCHANGED deckUpdates

HistoryResolves ==
  \E i \in 1..Len(inflight) :
    /\ inflight[i].kind = "history"
    /\ \E attempts \in HistoryResponses(inflight[i].cardId) : historyResolves(i, attempts)
    /\ UNCHANGED deckUpdates

HistoryNotFound ==
  \E i \in 1..Len(inflight) :
    /\ inflight[i].kind = "history"
    /\ \E message \in NotFoundErrors : historyRejects(i, message)
    /\ UNCHANGED deckUpdates

HistoryFails ==
  \E i \in 1..Len(inflight) :
    /\ inflight[i].kind = "history"
    /\ \E message \in TransportErrors : historyRejects(i, message)
    /\ UNCHANGED deckUpdates

NextPersist ==
  \/ StartSession
  \/ DispatchSession
  \/ ResetSession
  \/ ClearError
  \/ HistoryResolves
  \/ HistoryNotFound
  \/ HistoryFails
  \/ Tick
  \/ ResetAppData
  \/ Reload

SpecPersist == InitPersist /\ [][NextPersist]_vars

(***************************************************************************)
(* The store driven by the study panel and the deck view: sessions are     *)
(* started, reset and navigated while answers are being scored and         *)
(* histories fetched.  No handler waits for a suspended call.              *)
(***************************************************************************)
\* the number of scored answers a cached list takes before the learner stops
\* answering that card
MaxAttempts == 1

\* the attempts of a list that came from recordAttempt
Scored(attempts) == {i \in 1..Len(attempts) : attempts[i].id = 2}

\* the attempt recordAttempt resolves with for a card
ScoreResponses(cardId) ==
  {[id |-> 2, cardId |-> cardId, verdict |-> v] : v \in {"almost", "correct"}}

SelectCard ==
  /\ \E cardId \in CardIds \cup {NullId} : selectCard(cardId)
  /\ UNCHANGED deckUpdates

\* the panel submits the answer typed for the card on display, unless it
\* is busy (StudyPanel.tsx:400-421)
SubmitAnswer ==
  /\ session.active # NoCard
  /\ ~busy
  /\ Cardinality(Scored(CachedAttempts(attemptsByCard, session.active.id))) < MaxAttempts
  /\ HasRoom(Append(inflight, ScoreCall([cardId |-> session.active.id], session.phase)))
  /\ submitAnswer([cardId |-> session.active.id])
  /\ UNCHANGED deckUpdates

\* cap on the updateDeck calls of "Mark as Correct" suspended at once
MaxDeckUpdates == 1

\* "Mark as Correct" is clicked (StudyPanel.tsx:605-634), a button shown
\* with an almost or missing verdict (873-878) and not held back while busy:
\* unless the alternative answers of the card on display hold the answer
\* already, the handler sends the deck with the answer added to updateDeck
\* and is suspended, holding the card it will sync
MarkAsCorrect ==
  /\ panelVerdict \in {"almost", "missing"}
  /\ session.active.alternativeAnswers # "a1"
  /\ Len(deckUpdates) < MaxDeckUpdates
  /\ deckUpdates' = Append(deckUpdates, updatedCard(session.active))
  /\ UNCHANGED <<session, storeVars, now, storage, inflight, returned, histVars>>

\* updateDeck returns, true or, after a failure it caught, false
\* (deckStore.ts:107-129): either way the handler dispatches syncCard with
\* the card it captured at the click (StudyPanel.tsx:634-641)
DeckUpdateResolves ==
  \E i \in 1..Len(deckUpdates) :
    /\ dispatchSession([type |-> "syncCard", card |-> deckUpdates[i]])
    /\ deckUpdates' = Without(deckUpdates, i)

ScoreResolves ==
  \E i \in 1..Len(inflight) :
    /\ inflight[i].kind = "score"
    /\ \E attempt \in ScoreResponses(inflight[i].cardId) : scoreResolves(i, attempt)
    /\ UNCHANGED deckUpdates

ScoreFails ==
  \E i \in 1..Len(inflight) :
    /\ inflight[i].kind = "score"
    /\ \E rawMessage \in ScoreErrors : scoreFails(i, rawMessage)
    /\ UNCHANGED deckUpdates

NextStore ==
  \/ StartSession
  \/ DispatchSession
  \/ ResetSession
  \/ ClearError
  \/ SubmitAnswer
  \/ MarkAsCorrect
  \/ DeckUpdateResolves
  \/ ScoreResolves
  \/ ScoreFails
  \/ HistoryResolves
  \/ HistoryNotFound
  \/ HistoryFails

SpecStore == Init /\ [][NextStore]_vars

(***************************************************************************)
(* The attempt cache under fetchAttempts alone: clients of the store ask   *)
(* for the history of a card with a limit of their choice, with or without *)
(* force, while earlier calls are still suspended.                         *)
(***************************************************************************)
\* cap on the number of history calls suspended at once
MaxFetches == 2

\* the limit callers pass: one past the cap of the cache
Limits == {MAX_CACHED_ATTEMPTS + 1}

\* the newest `limit` attempts of a card that has at least that many
FullPage(cardId, limit) ==
  [k \in 1..limit |-> [id |-> 1, cardId |-> cardId, verdict |-> "correct"]]

\* what fetchAttemptHistory(cardId, limit) may answer: no attempt, or a page
HistoryPages(call) == {<<>>, FullPage(call.cardId, call.limit)}

FetchAttempts ==
  /\ Len(inflight) < MaxFetches
  /\ \E cardId \in CardIds, limit \in Limits, force \in BOOLEAN :
       fetchAttempts(cardId, limit, force)
  /\ UNCHANGED deckUpdates

PageResolves ==
  \E i \in 1..Len(inflight) :
    /\ inflight[i].kind = "history"
    /\ \E attempts \in HistoryPages(inflight[i]) : historyResolves(i, attempts)
    /\ UNCHANGED deckUpdates

NextCache ==
  \/ FetchAttempts
  \/ PageResolves
  \/ HistoryNotFound
  \/ HistoryFails

SpecCache == Init /\ [][NextCache]_vars

(***************************************************************************)
(* submitAnswer called by clients that do not wait for status to leave     *)
(* scoring: answers are submitted while earlier scoring calls and the      *)
(* history prefetch of startSession are still suspended.                   *)
(***************************************************************************)
\* cap on the number of calls suspended at once under these clients
MaxSubmits == 2

\* the decks these clients study: every card of the deck, none archived
SubmitDecks == {cards \in BootInputs : Len(cards) = MaxCards /\ cards[1].id = 1
                                        /\ \A i \in 1..Len(cards) : NotArchived(cards[i])}

StartForSubmit ==
  /\ session = initialSessionState
  /\ \E deckId \in DeckIds, cards \in SubmitDecks : startSession(deckId, cards)
  /\ UNCHANGED deckUpdates

SubmitDirect ==
  /\ Len(inflight) < MaxSubmits
  /\ \E cardId \in CardIds :
       /\ Cardinality(Scored(CachedAttempts(attemptsByCard, cardId))) < MaxAttempts
       /\ submitAnswer([cardId |-> cardId])
  /\ UNCHANGED deckUpdates

NextSubmit ==
  \/ StartForSubmit
  \/ ResetSession
  \/ SubmitDirect
  \/ ScoreResolves
  \/ ScoreFails
  \/ HistoryResolves
  \/ HistoryNotFound
  \/ HistoryFails

SpecSubmit == Init /\ [][NextSubmit]_vars

(***************************************************************************)
(* The study panel answering while history calls are suspended: a deck is  *)
(* started and the card on display is answered before the prefetch of      *)
(* startSession has returned; the session may be reset meanwhile.          *)
(***************************************************************************)
\* the panel submits the answer typed for the card on display, unless it
\* is busy (StudyPanel.tsx:400-421)
SubmitShown ==
  /\ session.active # NoCard
  /\ ~busy
  /\ Cardinality(Scored(CachedAttempts(attemptsByCard, session.active.id))) < MaxAttempts
  /\ Len(inflight) < MaxSubmits
  /\ submitAnswer([cardId |-> session.active.id])
  /\ UNCHANGED deckUpdates

NextAnswer ==
  \/ StartForSubmit
  \/ ResetSession
  \/ SubmitShown
  \/ ScoreResolves
  \/ ScoreFails
  \/ HistoryResolves
  \/ HistoryNotFound
  \/ HistoryFails

SpecAnswer == Init /\ [][NextAnswer]_vars

(***************************************************************************)
(* The store under clients that also call selectCard, which no component   *)
(* of the application does: a deck is started, cards are selected,         *)
(* reviewed and answered while calls are suspended.                        *)
(***************************************************************************)
\* the decks these clients study: two cards, as they leave the deck editor
SelectDecks == {cards \in SubmitDecks :
                  \A i \in 1..Len(cards) : cards[i].alternativeAnswers = Undefined}

StartForSelect ==
  /\ session = initialSessionState
  /\ \E deckId \in DeckIds, cards \in SelectDecks : startSession(deckId, cards)
  /\ UNCHANGED deckUpdates

NextSelect ==
  \/ StartForSelect
  \/ SelectCard
  \/ DispatchSession
  \/ ResetSession
  \/ ClearError
  \/ SubmitAnswer
  \/ ScoreResolves
  \/ ScoreFails
  \/ HistoryResolves
  \/ HistoryNotFound
  \/ HistoryFails

SpecSelect == Init /\ [][NextSelect]_vars

(***************************************************************************)
(* bootstrap as a pure function: the card list is drawn first, then        *)
(* handed to the reducer.                                                  *)
(***************************************************************************)
InitBootstrap == InitStore /\ bootCards \in AnyInputs

ApplyBootstrap ==
  /\ session = initialSessionState
  /\ \E deckId \in DeckIds :
       Reduce([type |-> "bootstrap", deckId |-> deckId, cards |-> bootCards])

NextBootstrap == ApplyBootstrap

SpecBootstrap == InitBootstrap /\ [][NextBootstrap]_vars

(***************************************************************************)
(* A bootstrapped session worked through to its end: after the bootstrap   *)
(* the caller dispatches next and markLearned only, or backOfPile only.    *)
(* A caller that drains the session keeps dispatching while an event is    *)
(* still to be sent, hence the weak fairness of DrainStep.                 *)
(***************************************************************************)
\* cap on the reviews logged in such a run: one more than a deck has cards
MaxReviews == MaxCards + 1

InitDrain == InitStore /\ bootCards \in BootInputs

DrainStep ==
  /\ session.lastAction \in {"bootstrap", "next", "markLearned"}
  /\ Len(session.completed) < MaxReviews
  /\ \E kind \in {"next", "markLearned"}, verdict \in Verdicts :
       Reduce([type |-> kind, verdict |-> verdict])

PileStep ==
  /\ session.lastAction \in {"bootstrap", "backOfPile"}
  /\ Len(session.completed) < MaxReviews
  /\ \E verdict \in Verdicts : Reduce([type |-> "backOfPile", verdict |-> verdict])

NextDrain ==
  \/ ApplyBootstrap
  \/ DrainStep
  \/ PileStep

SpecDrain == InitDrain /\ [][NextDrain]_vars /\ WF_vars(DrainStep)

(***************************************************************************)
(* The three-card scenario of the reducer tests and of the walkthrough:    *)
(* bootstrap [A, B, C], next, backOfPile, next, next.  The cards and the   *)
(* verdict of every event are drawn freely; the position in the script is  *)
(* the number of reviews logged so far.                                    *)
(***************************************************************************)
ScenarioIds == 1..3

ScenarioCards ==
  [id : ScenarioIds, prompt : {"p0"}, keypoints : {"k0"},
   archived : {Undefined, "false"}, alternativeAnswers : {Undefined}]

\* the lists [A, B, C] of three non-archived cards with distinct ids
ScenarioInputs == {cards \in [ScenarioIds -> ScenarioCards] : DistinctIds(cards)}

InitScenario == InitStore /\ bootCards \in ScenarioInputs

ScenarioBootstrap ==
  /\ session = initialSessionState
  /\ \E deckId \in DeckIds :
       Reduce([type |-> "bootstrap", deckId |-> deckId, cards |-> bootCards])

\* the first, third and fourth event after bootstrap
ScenarioNext ==
  /\ session.lastAction # Null
  /\ Len(session.completed) \in {0, 2, 3}
  /\ \E verdict \in Verdicts : Reduce([type |-> "next", verdict |-> verdict])

\* the second event after bootstrap
ScenarioBackOfPile ==
  /\ Len(session.completed) = 1
  /\ \E verdict \in Verdicts : Reduce([type |-> "backOfPile", verdict |-> verdict])

NextScenario ==
  \/ ScenarioBootstrap
  \/ ScenarioNext
  \/ ScenarioBackOfPile

SpecScenario == InitScenario /\ [][NextScenario]_vars

(***************************************************************************)
(* Properties.                                                             *)
(***************************************************************************)
SeqIds(cards) == {cards[i].id : i \in 1..Len(cards)}

\* events of the reducer with the inputs the claims range over
ReviewEvents(kind) == {[type |-> kind, verdict |-> v] : v \in Verdicts}
SetActiveEvents == {[type |-> "setActive", cardId |-> c] : c \in CardIds \cup {NullId}}
AnySyncCards ==
  [id : 1..(MaxCards + 1), prompt : {"p1"}, keypoints : {Undefined, "k1"},
   archived : {Undefined, "true"}, alternativeAnswers : {Undefined, "a1"}]
SyncEvents == {[type |-> "syncCard", card |-> c] : c \in AnySyncCards}

\* positions of the non-archived cards of the bootstrapped list
LiveIndices == {i \in 1..Len(bootCards) : bootCards[i].archived # "true"}
\* the k-th of them, in the caller's order
NthLive(k) == CHOOSE i \in LiveIndices : Cardinality({j \in LiveIndices : j < i}) = k - 1

\* C1: bootstrap(deckId, cards) makes the first non-archived card active (none
\* if there is none), queues the remaining non-archived cards in the caller's
\* order, empties completed, sets total to the number of non-archived cards,
\* and sets phase to empty iff that number is zero (prompt otherwise).
C1_BootstrapResult ==
  session.lastAction = "bootstrap" =>
    LET n == Cardinality(LiveIndices)
    IN /\ session.active = IF n = 0 THEN NoCard ELSE bootCards[NthLive(1)]
       /\ Len(session.queue) = IF n = 0 THEN 0 ELSE n - 1
       /\ \A k \in 1..Len(session.queue) : session.queue[k] = bootCards[NthLive(k + 1)]
       /\ session.completed = <<>>
       /\ session.total = n
       /\ (session.phase = "empty") <=> (n = 0)
       /\ n > 0 => session.phase = "prompt"

\* a list with an archived card ahead of the live ones has been bootstrapped
C1_Witness ==
  /\ session.lastAction = "bootstrap"
  /\ Len(bootCards) = MaxCards + 1
  /\ bootCards[1].archived = "true"
  /\ session.active = bootCards[2]
  /\ Len(session.queue) = MaxCards - 1

\* the non-empty cards in play: the active card, then the queue
InPlay(state) ==
  (IF state.active # NoCard THEN <<state.active>> ELSE <<>>) \o state.queue

\* C2: from a bootstrap with pairwise distinct ids, no card id occurs more
\* than once among the active card and the entries of queue.
C2_NoDuplicateInPlay ==
  LET cards == InPlay(session)
  IN \A i, j \in 1..Len(cards) : i # j => cards[i].id # cards[j].id

\* a completed card has been made active again while another card is queued
C2_Witness ==
  /\ session.lastAction = "setActive"
  /\ session.active # NoCard
  /\ Len(session.queue) >= 1
  /\ \E i \in 1..Len(session.completed) : session.completed[i].card.id = session.active.id

Idle(state) == state.active = NoCard /\ state.queue = <<>>

\* C3: phase is empty only if no card is active and the queue is empty; such
\* a state has phase empty or complete; phase empty or complete never comes
\* with an active card or a non-empty queue.
C3_EmptyPhase ==
  /\ session.phase = "empty" => Idle(session)
  /\ Idle(session) => session.phase \in {"empty", "complete"}
  /\ session.phase \in {"empty", "complete"} => Idle(session)

\* the last card of a session has been completed
C3_Witness ==
  /\ session.phase = "complete"
  /\ session.lastAction = "next"
  /\ Len(session.completed) >= 2

\* C4: phase is complete iff no card is active, the queue is empty and a card
\* has been active since the last bootstrap; such a state is never labelled
\* empty once a card has been active.
C4_CompleteIffHistory ==
  (session.phase = "complete") <=> (Idle(session) /\ everActive)

\* C5: total keeps the bootstrap-time count of non-archived cards through
\* every later event.
C5_TotalFixed == session.total = Cardinality(bootIds)

\* a completed card has been re-activated and completed again
C5_Witness ==
  /\ session.total >= 1
  /\ Len(session.completed) > session.total
  /\ session.active # NoCard

\* C6: with no active card, next, markLearned, backOfPile and check return
\* the state unchanged.
C6_NoActiveNoOp ==
  session.active = NoCard =>
    \A ev \in ReviewEvents("next") \cup ReviewEvents("markLearned")
              \cup ReviewEvents("backOfPile") \cup {[type |-> "check"]} :
      sessionQueueReducer(session, ev) = session

\* no card is active while cards are queued and reviews are logged
C6_Witness ==
  /\ session.active = NoCard
  /\ Len(session.queue) >= 1
  /\ Len(session.completed) >= 1

\* C7 as stated: after next or markLearned the card that was active is not
\* in queue; after backOfPile it is.
C7_Original ==
  session.active # NoCard =>
    \A v \in Verdicts :
      /\ session.active.id \notin
           SeqIds(sessionQueueReducer(session, [type |-> "next", verdict |-> v]).queue)
      /\ session.active.id \notin
           SeqIds(sessionQueueReducer(session, [type |-> "markLearned", verdict |-> v]).queue)
      /\ session.active.id \in
           SeqIds(sessionQueueReducer(session, [type |-> "backOfPile", verdict |-> v]).queue)

\* C7 amended: after next or markLearned the card that was active is not in
\* queue; after backOfPile it is the last entry of queue when the queue was
\* non-empty, and is the active card again (queue still empty) otherwise.
C7_Requeue ==
  session.active # NoCard =>
    \A v \in Verdicts :
      LET afterBack == sessionQueueReducer(session, [type |-> "backOfPile", verdict |-> v])
      IN /\ session.active.id \notin
              SeqIds(sessionQueueReducer(session, [type |-> "next", verdict |-> v]).queue)
         /\ session.active.id \notin
              SeqIds(sessionQueueReducer(session, [type |-> "markLearned", verdict |-> v]).queue)
         /\ IF session.queue # <<>>
            THEN /\ afterBack.queue[Len(afterBack.queue)] = session.active
                 /\ afterBack.active = Head(session.queue)
            ELSE /\ afterBack.active = session.active
                 /\ afterBack.queue = <<>>

\* backOfPile has sent a card behind a queued one
C7_Witness ==
  /\ session.lastAction = "backOfPile"
  /\ session.active # NoCard
  /\ Len(session.queue) >= 1
  /\ session.completed[Len(session.completed)].card.id
       = session.queue[Len(session.queue)].id

C9_SyncIdempotent ==
  \A ev \in SyncEvents :
    LET once == sessionQueueReducer(session, ev)
    IN /\ sessionQueueReducer(once, ev) = once
       /\ ev.card.id \notin SessionIds(session) => once = session

\* syncCard has edited a card that is queued and logged in completed
C9_Witness ==
  /\ session.lastAction = "syncCard"
  /\ session.active # NoCard
  /\ session.active.alternativeAnswers = "a1"
  /\ \E i \in 1..Len(session.queue) : session.queue[i].alternativeAnswers = Undefined
  /\ \E i \in 1..Len(session.completed) :
       /\ session.completed[i].card.id = session.active.id
       /\ session.completed[i].card.alternativeAnswers = "a1"

\* the persisted fields the store holds after a step
SnapshotAfter ==
  partialize(session', activeCardId', lastAttempt', attemptsByCard', sessionStartedAt')

\* C10: whenever the store is rehydrated, persisted state whose
\* sessionStartedAt is more than MAX_SESSION_AGE_MS before the load time is
\* replaced by the reset shape, and state of any age up to 24 h rehydrates
\* unchanged, for entries written by the store version that loads them.
C10_StaleSessionDiscarded ==
  [][(Reload /\ storage.version = StoreVersion
        /\ storage.state.sessionStartedAt # NullTime) =>
       IF now - storage.state.sessionStartedAt > MAX_SESSION_AGE_MS
       THEN SnapshotAfter = InitialSnapshot
       ELSE SnapshotAfter = storage.state]_vars

\* C11: bootstrap with non-archived cards [A, B, C] gives active A, queue
\* [B, C], total 3; next gives completed [(A, next)], active B, queue [C];
\* backOfPile gives completed [(A, next), (B, backOfPile)], active C, queue
\* [B]; two further next events give no active card, an empty queue, phase
\* complete and a completed log of length 4, which exceeds total.
C11_ThreeCardTrace ==
  LET A == bootCards[1]
      B == bootCards[2]
      C == bootCards[3]
      done == Len(session.completed)
      Logged(i, card, kind) ==
        session.completed[i].card = card /\ session.completed[i].action = kind
  IN session.lastAction # Null =>
       /\ session.total = 3
       /\ done <= 4
       /\ done = 0 => session.active = A /\ session.queue = <<B, C>>
       /\ done >= 1 => Logged(1, A, "next")
       /\ done = 1 => session.active = B /\ session.queue = <<C>>
       /\ done >= 2 => Logged(2, B, "backOfPile")
       /\ done = 2 => session.active = C /\ session.queue = <<B>>
       /\ done = 4 => /\ session.active = NoCard
                      /\ session.queue = <<>>
                      /\ session.phase = "complete"
                      /\ Len(session.completed) > session.total

\* the five events of the scenario have been applied
C11_Witness ==
  /\ Len(bootCards) = 3
  /\ Len(session.completed) = 4
  /\ session.lastAction = "next"
  /\ session.completed[4].card = bootCards[2]

\* the calls in flight that are scoring calls
ScoreCalls == {i \in 1..Len(inflight) : inflight[i].kind = "score"}

\* C12 as stated: when submitAnswer was called for the active card in phase
\* prompt and the scoring call resolves with r, then phase is review,
\* lastAction is check, the card is still active and activeCardId is its id,
\* lastAttempt is r, status is idle, error is unset, r heads
\* attemptsByCard[r.cardId], and the call returns r.
C12_Original ==
  [][\A i \in ScoreCalls : \A r \in ScoreResponses(inflight[i].cardId) :
       (inflight[i].askedIn = "prompt" /\ scoreResolves(i, r)) =>
         /\ session'.phase = "review"
         /\ session'.lastAction = "check"
         /\ session'.active.id = r.cardId
         /\ activeCardId' = r.cardId
         /\ lastAttempt' = r
         /\ status' = "idle"
         /\ error' = Undefined
         /\ r.cardId \in DOMAIN attemptsByCard'
         /\ attemptsByCard'[r.cardId] # <<>>
         /\ Head(attemptsByCard'[r.cardId]) = r
         /\ returned'.value = r]_vars

\* C12 amended: when the scoring call of submitAnswer resolves with r, then
\* lastAttempt is r, status is idle, r heads attemptsByCard[r.cardId], the
\* call returns r, the active card is the one of the moment before and
\* activeCardId is its id, and error keeps the value it had; phase is review
\* and lastAction is check if a card is active at that moment, else the
\* session is untouched.  With the card of the call still active and no
\* error raised meanwhile this is the outcome stated.
C12_SubmitResolves ==
  [][\A i \in ScoreCalls : \A r \in ScoreResponses(inflight[i].cardId) :
       scoreResolves(i, r) =>
         /\ lastAttempt' = r
         /\ status' = "idle"
         /\ r.cardId \in DOMAIN attemptsByCard'
         /\ attemptsByCard'[r.cardId] # <<>>
         /\ Head(attemptsByCard'[r.cardId]) = r
         /\ returned'.value = r
         /\ session'.active = session.active
         /\ activeCardId' = session.active.id
         /\ error' = error
         /\ IF session.active # NoCard
            THEN /\ session'.phase = "review"
                 /\ session'.lastAction = "check"
                 /\ session'.queue = session.queue
                 /\ session'.completed = session.completed
            ELSE session' = session]_vars

\* an answer given in phase prompt has been scored for the card on display,
\* which is still active and now in review, after a history call had failed
\* under the suspended scoring call: the error raised meanwhile is kept
C12_Witness ==
  /\ returned.call.kind = "score"
  /\ returned.call.askedIn = "prompt"
  /\ lastAttempt # NoAttempt
  /\ lastAttempt = returned.value
  /\ lastAttempt.cardId = activeCardId
  /\ session.phase = "review"
  /\ session.lastAction = "check"
  /\ status = "idle"
  /\ error \in TransportErrors
  /\ Head(attemptsByCard[activeCardId]) = lastAttempt

\* C13 as stated: once submitAnswer has resolved with verdict v for the
\* active card, dispatchSession({type: "next"}) appends a completed entry for
\* that card whose verdict is v.
C13_Original ==
  verdictForCard(session.active, lastAttempt) # NoAttempt =>
    LET after == dispatched(session, lastAttempt,
                            [type |-> "next", verdict |-> Undefined]).session
    IN /\ Len(after.completed) = Len(session.completed) + 1
       /\ after.completed[Len(after.completed)].card = session.active
       /\ after.completed[Len(after.completed)].verdict = lastAttempt.verdict

\* C13 amended: once submitAnswer has resolved with verdict v for the active
\* card, dispatchSession({type: "next", verdict: w}) appends a completed entry
\* for that card whose verdict is w, the verdict the caller passes; and every
\* next the study panel dispatches in such a state logs v for that card.
C13_VerdictOfEvent ==
  /\ [](verdictForCard(session.active, lastAttempt) # NoAttempt =>
          \A w \in Verdicts :
            dispatched(session, lastAttempt,
                       [type |-> "next", verdict |-> w]).session.completed
              = Append(session.completed,
                       [card |-> session.active, action |-> "next", completedAt |-> now,
                        verdict |-> w]))
  /\ [][(/\ verdictForCard(session.active, lastAttempt) # NoAttempt
          /\ DispatchSession
          /\ session'.lastAction = "next") =>
           /\ Len(session'.completed) = Len(session.completed) + 1
           /\ session'.completed[Len(session'.completed)].card = session.active
           /\ session'.completed[Len(session'.completed)].action = "next"
           /\ session'.completed[Len(session'.completed)].verdict = lastAttempt.verdict]_vars

\* next has logged the verdict of the attempt scored for the card
C13_Witness ==
  /\ session.lastAction = "next"
  /\ Len(session.completed) >= 1
  /\ session.completed[Len(session.completed)].verdict = "almost"
  /\ attemptsByCard[session.completed[Len(session.completed)].card.id][1].verdict
       = "almost"

\* the calls in flight that are history calls
HistoryCalls == {i \in 1..Len(inflight) : inflight[i].kind = "history"}

\* the cache entries of the cards other than cardId are those of the step before
OthersKept(cardId) ==
  /\ DOMAIN attemptsByCard' = DOMAIN attemptsByCard \cup {cardId}
  /\ \A c \in DOMAIN attemptsByCard \ {cardId} : attemptsByCard'[c] = attemptsByCard[c]

\* C14: when the history call of fetchAttempts(cardId) fails with a
\* not-found-class error, attemptsByCard[cardId] becomes the empty list, the
\* error field is not set (it keeps its value, unset if it was unset) and []
\* is returned; when it fails with any other error, attemptsByCard is left
\* exactly as it was, error is set to the failure message and [] is returned.
C14_HistoryFailure ==
  [][\A i \in HistoryCalls : \A message \in HistoryErrors :
       historyRejects(i, message) =>
         /\ returned'.call = inflight[i]
         /\ returned'.value = <<>>
         /\ IF message \in NotFoundErrors
            THEN /\ OthersKept(inflight[i].cardId)
                 /\ attemptsByCard'[inflight[i].cardId] = <<>>
                 /\ error' = error
            ELSE /\ attemptsByCard' = attemptsByCard
                 /\ error' = message]_vars

\* a failure that is not of the not-found class has left a cached page in
\* place, after a not-found failure had emptied the entry of the other card
C14_Witness ==
  /\ returned.call.kind = "history"
  /\ returned.value = <<>>
  /\ error \in TransportErrors
  /\ returned.call.cardId \in DOMAIN attemptsByCard
  /\ attemptsByCard[returned.call.cardId] # <<>>
  /\ \E c \in DOMAIN attemptsByCard : attemptsByCard[c] = <<>>

\* C17: every list in attemptsByCard has at most MAX_CACHED_ATTEMPTS entries,
\* whichever of submitAnswer and fetchAttempts (for any caller-supplied
\* limit) wrote it last.
C17_CacheCapped ==
  \A c \in DOMAIN attemptsByCard : Len(attemptsByCard[c]) <= MAX_CACHED_ATTEMPTS

\* C18: fetchAttempts(cardId) without force returns the cached list and makes
\* no history call whenever attemptsByCard holds an entry for cardId, the
\* empty list included; only a card with no entry, or a call with force,
\* reaches the collaborator.
C18_CacheHit ==
  [][\A cardId \in CardIds : \A limit \in Limits : \A force \in BOOLEAN :
       fetchAttempts(cardId, limit, force) =>
         IF cardId \in DOMAIN attemptsByCard /\ ~force
         THEN /\ inflight' = inflight
              /\ returned'.value = attemptsByCard[cardId]
         ELSE inflight' = Append(inflight, HistoryCall(cardId, limit))]_vars

\* C19: when two fetchAttempts calls for the same card are in flight at once
\* and both succeed, attemptsByCard[cardId] ends as the response of the call
\* that completed last, whichever was issued first: every response is
\* written over the entry of its card as it arrives, and the entries of the
\* other cards are not affected.
C19_LastWriteWins ==
  [][\A i \in HistoryCalls : \A attempts \in HistoryPages(inflight[i]) :
       historyResolves(i, attempts) =>
         /\ OthersKept(inflight[i].cardId)
         /\ attemptsByCard'[inflight[i].cardId] = attempts
         /\ returned'.value = attempts]_vars

\* of two calls for one card the one issued first has completed last, after
\* the other had written an empty history, and its page is the cached list
\* while the other card keeps its own
C19_Witness ==
  /\ returned.call.kind = "history"
  /\ returned.call.overtaken
  /\ returned.value # <<>>
  /\ inflight = <<>>
  /\ attemptsByCard[returned.call.cardId] = returned.value
  /\ \E c \in DOMAIN attemptsByCard :
       /\ c # returned.call.cardId
       /\ Len(attemptsByCard[c]) # Len(returned.value)

\* C15: when the scoring call made by submitAnswer fails, submitAnswer
\* returns null, status becomes error with a non-empty error message, and
\* session, activeCardId, lastAttempt and attemptsByCard are exactly as they
\* were when the failure arrived.
C15_ScoreFailure ==
  [][\A i \in ScoreCalls : \A rawMessage \in ScoreErrors :
       scoreFails(i, rawMessage) =>
         /\ returned'.call = inflight[i]
         /\ returned'.value = NoAttempt
         /\ status' = "error"
         /\ error' \notin {Undefined, ""}
         /\ error' = IF rawMessage = "Request timeout after 30000ms"
                     THEN SidecarMessage ELSE rawMessage
         /\ session' = session
         /\ activeCardId' = activeCardId
         /\ lastAttempt' = lastAttempt
         /\ attemptsByCard' = attemptsByCard]_vars

\* a scoring call has timed out for the card on display, whose history is
\* cached
C15_Witness ==
  /\ returned.call.kind = "score"
  /\ returned.value = NoAttempt
  /\ status = "error"
  /\ error = SidecarMessage
  /\ session.active # NoCard
  /\ session.active.id = returned.call.cardId
  /\ session.active.id \in DOMAIN attemptsByCard
  /\ attemptsByCard[session.active.id] # <<>>

\* C16: in every reachable store state lastAttempt is null or an attempt
\* whose cardId equals activeCardId.
C16_AttemptOfActiveCard ==
  lastAttempt # NoAttempt => lastAttempt.cardId = activeCardId

\* C20: for every state with an active card a and every optional verdict v,
\* next(v) and markLearned(v) give the same state up to the action tag:
\* one entry {card: a, verdict: v, action: next resp. markLearned} is
\* appended to completed, the queue front becomes active (none when the
\* queue is empty), and phase is prompt if a card is active then, else
\* complete.
C20_NextLikeMarkLearned ==
  session.active # NoCard =>
    \A v \in Verdicts :
      LET afterNext == sessionQueueReducer(session, [type |-> "next", verdict |-> v])
          afterLearned ==
            sessionQueueReducer(session, [type |-> "markLearned", verdict |-> v])
          Entry(kind) ==
            [card |-> session.active, action |-> kind, completedAt |-> now, verdict |-> v]
          front == IF session.queue = <<>> THEN NoCard ELSE Head(session.queue)
          rest == IF session.queue = <<>> THEN <<>> ELSE Tail(session.queue)
          Popped(after, kind) ==
            /\ after.completed = Append(session.completed, Entry(kind))
            /\ after.active = front
            /\ after.queue = rest
            /\ after.phase = IF front # NoCard THEN "prompt" ELSE "complete"
            /\ after.lastAction = kind
            /\ after.deckId = session.deckId
            /\ after.total = session.total
      IN /\ Popped(afterNext, "next")
         /\ Popped(afterLearned, "markLearned")
         /\ [afterNext EXCEPT !.lastAction = "markLearned",
                              !.completed = Append(session.completed, Entry("markLearned"))]
              = afterLearned

\* markLearned has completed a card and brought the queued one on display
C20_Witness ==
  /\ session.lastAction = "markLearned"
  /\ session.active # NoCard
  /\ Len(session.completed) >= 1
  /\ session.completed[Len(session.completed)].action = "markLearned"
  /\ session.completed[Len(session.completed)].verdict = "correct"

C22_BackOfPile ==
  session.active # NoCard =>
    \A v \in Verdicts :
      LET after == sessionQueueReducer(session, [type |-> "backOfPile", verdict |-> v])
          extended == session.queue \o <<session.active>>
          n == Len(session.completed)
      IN /\ after.active = Head(extended)
         /\ after.queue = Tail(extended)
         /\ session.queue = <<>> => after.active = session.active
         /\ Len(after.completed) = n + 1
         /\ SubSeq(after.completed, 1, n) = session.completed
         /\ after.completed[n + 1].card = session.active
         /\ after.completed[n + 1].action = "backOfPile"
         /\ after.completed[n + 1].verdict = v
         /\ after.phase = IF after.active # NoCard THEN "prompt" ELSE "complete"

\* backOfPile on the only card in play: it is active again, and logged
C22_Witness ==
  /\ session.lastAction = "backOfPile"
  /\ session.queue = <<>>
  /\ session.active # NoCard
  /\ session.phase = "prompt"
  /\ session.completed[Len(session.completed)].card.id = session.active.id
  /\ session.completed[Len(session.completed)].action = "backOfPile"

\* the entries of `before` are still in place in `after`: same card id,
\* action and verdict at each index
LogKept(before, after) ==
  /\ Len(after) >= Len(before)
  /\ \A i \in 1..Len(before) :
       /\ after[i].card.id = before[i].card.id
       /\ after[i].action = before[i].action
       /\ after[i].verdict = before[i].verdict

\* C23: completed is an append-only log: every event other than bootstrap and
\* reset leaves the existing entries in place and in order; next, markLearned
\* and backOfPile with an active card append exactly one entry, setActive and
\* check append none, and syncCard replaces card payloads in place, keeping
\* the length and order of completed and of queue.
C23_AppendOnlyLog ==
  LET n == Len(session.completed)
      reviews == ReviewEvents("next") \cup ReviewEvents("markLearned")
                   \cup ReviewEvents("backOfPile")
  IN /\ \A ev \in reviews :
          LET after == sessionQueueReducer(session, ev)
          IN /\ LogKept(session.completed, after.completed)
             /\ Len(after.completed) = IF session.active # NoCard THEN n + 1 ELSE n
     /\ \A ev \in SetActiveEvents \cup {[type |-> "check"]} :
          LET after == sessionQueueReducer(session, ev)
          IN /\ LogKept(session.completed, after.completed)
             /\ Len(after.completed) = n
     /\ \A ev \in SyncEvents :
          LET after == sessionQueueReducer(session, ev)
          IN /\ LogKept(session.completed, after.completed)
             /\ Len(after.completed) = n
             /\ Len(after.queue) = Len(session.queue)
             /\ \A i \in 1..Len(session.queue) : after.queue[i].id = session.queue[i].id

\* a card reviewed twice is logged twice, the second time by markLearned
C23_Witness ==
  /\ session.lastAction = "markLearned"
  /\ Len(session.completed) >= 2
  /\ session.completed[1].card.id = session.completed[2].card.id
  /\ session.completed[2].action = "markLearned"

\* C24: in every reachable store state, after any of startSession,
\* dispatchSession, selectCard, submitAnswer (resolved or failed),
\* fetchAttempts, resetSession and clearError, activeCardId is the id of
\* session.active, and is null exactly when no card is active.
C24_ActiveIdDerived ==
  /\ activeCardId = (IF session.active # NoCard THEN session.active.id ELSE NullId)
  /\ (activeCardId = NullId) <=> (session.active = NoCard)

\* a scoring call has resolved after the session it was made in was reset
C24_Witness ==
  /\ returned.call.kind = "score"
  /\ returned.value # NoAttempt
  /\ session.active = NoCard
  /\ session.lastAction = Null
  /\ activeCardId = NullId
  /\ status = "idle"

\* C25: session events dispatched while a submitAnswer or fetchAttempts call
\* is suspended take effect at once, and the response is applied to the state
\* of the moment it arrives: the active card, queue and completed log are
\* kept (a scoring response only applies check on top of them, a history
\* response only writes attemptsByCard and error), never rolled back.
C25_AppliedOnArrival ==
  [][/\ inflight # <<>> =>
          /\ \A action \in PanelEvents :
               dispatchSession(action) => session' = sessionQueueReducer(session, action)
          /\ \A cardId \in CardIds \cup {NullId} :
               selectCard(cardId) =>
                 session' = sessionQueueReducer(session,
                              [type |-> "setActive", cardId |-> cardId])
          /\ resetSession => session' = initialSessionState
     /\ \A i \in ScoreCalls : \A r \in ScoreResponses(inflight[i].cardId) :
          scoreResolves(i, r) =>
            /\ session'.active = session.active
            /\ session'.queue = session.queue
            /\ session'.completed = session.completed
            /\ session' = IF session.active = NoCard THEN session
                          ELSE [session EXCEPT !.phase = "review", !.lastAction = "check"]
     /\ \A i \in HistoryCalls :
          \/ \E attempts \in HistoryResponses(inflight[i].cardId) :
               historyResolves(i, attempts)
          \/ \E message \in HistoryErrors : historyRejects(i, message)
          => /\ session' = session
             /\ activeCardId' = activeCardId
             /\ lastAttempt' = lastAttempt
             /\ status' = status
             /\ sessionStartedAt' = sessionStartedAt]_vars

\* an answer to one card has been scored after the session had moved on to
\* another card: the response found that card active and checked it
C25_Witness ==
  /\ returned.call.kind = "score"
  /\ returned.value # NoAttempt
  /\ session.active # NoCard
  /\ session.active.id # returned.call.cardId
  /\ session.lastAction = "check"
  /\ session.phase = "review"

\* C26: whenever at least one submitAnswer call is in flight, status is
\* scoring; status leaves scoring only when no scoring call remains in
\* flight, also when two submitAnswer calls overlap or the session is reset
\* or started anew during the call.
C26_ScoringWhileInFlight ==
  ScoreCalls # {} => status = "scoring"

\* C27: in every reachable session state, phase prompt or review implies that
\* a card is active; with no active card the phase is empty or complete.
C27_PromptHasCard ==
  /\ session.phase \in {"prompt", "review"} => session.active # NoCard
  /\ session.active = NoCard => session.phase \in {"empty", "complete"}

\* the ids logged in `completed`
LoggedIds(state) == {state.completed[i].card.id : i \in 1..Len(state.completed)}

\* C28: card conservation: from a bootstrap with pairwise distinct ids up to
\* the next bootstrap or reset, the set of card ids occurring as active, in
\* queue or in completed is exactly the set of non-archived bootstrapped
\* ids, the number of distinct ids among active and queue never exceeds
\* total, and in phase complete every bootstrapped card has a completed
\* entry.
C28_CardConservation ==
  /\ ({session.active.id} \ {NullId}) \cup SeqIds(session.queue) \cup LoggedIds(session)
       = bootIds
  /\ Cardinality(SeqIds(InPlay(session))) <= session.total
  /\ session.phase = "complete" => bootIds \subseteq LoggedIds(session)

\* every card of a full deck has been reviewed and the session is complete
C28_Witness ==
  /\ session.phase = "complete"
  /\ Cardinality(bootIds) = MaxCards
  /\ LoggedIds(session) = CardIds
  /\ session.total = MaxCards

\* C29: termination: after a bootstrap with n >= 1 non-archived cards, a run
\* of next and markLearned events alone reaches phase complete after exactly
\* n events, with completed listing the n cards in bootstrap order; a run of
\* backOfPile events never reaches complete, a card stays active.
C29_Termination ==
  /\ [](session.lastAction \in {"bootstrap", "next", "markLearned"} =>
          LET n == Cardinality(LiveIndices)
              k == Len(session.completed)
          IN /\ k <= n
             /\ n >= 1 => ((session.phase = "complete") <=> (k = n))
             /\ \A i \in 1..k : session.completed[i].card = bootCards[NthLive(i)])
  /\ [](session.lastAction = "backOfPile" =>
          session.phase # "complete" /\ session.active # NoCard)
  /\ [](session.lastAction = "bootstrap" /\ Cardinality(LiveIndices) >= 1 =>
          <>(session.phase = "complete" \/ session.lastAction = "backOfPile"))

\* a full deck has been drained by next and markLearned events
C29_Witness ==
  /\ session.phase = "complete"
  /\ Cardinality(LiveIndices) = MaxCards
  /\ Len(session.completed) = MaxCards
  /\ session.completed[1].action = "markLearned"
  /\ session.lastAction = "next"

\* C30: once submitAnswer has succeeded with attempt r for a card, r stays in
\* attemptsByCard[r.cardId], at index 0 until a newer attempt for that card
\* is recorded, under every interleaving with the history fetches for that
\* card that were issued before the scoring response arrived and complete
\* after it, whether they succeed or fail with not-found.  Here lastAttempt
\* is the attempt scored last: startSession and resetSession clear it, so a
\* history call completing while it is set was issued before it arrived.
C30_ScoredAttemptKept ==
  lastAttempt # NoAttempt =>
    /\ lastAttempt.cardId \in DOMAIN attemptsByCard
    /\ attemptsByCard[lastAttempt.cardId] # <<>>
    /\ Head(attemptsByCard[lastAttempt.cardId]) = lastAttempt

====
